---- MODULE Spec2Model ----
(***************************************************************************)
(* The circuit breaker of src/src/services/circuit-breaker.service.ts:     *)
(* one CircuitBreaker object, the execute calls that run concurrently on   *)
(* it (interleaved on the event loop), the timeout timers, the clock and   *)
(* manual reset.                                                           *)
(*                                                                         *)
(* SpecService is the CircuitBreakerService in front of the circuits (the  *)
(* registry of circuits by name), SpecGuard the circuit behind the         *)
(* CircuitBreakerGuard of src/unnamed/part_007, SpecLogger the circuit     *)
(* breaker inside the UnifiedLoggerService.                                *)
(*                                                                         *)
(* Time is counted in ticks of the clock Date.now().  A handler (the       *)
(* synchronous part of execute, a promise continuation, a timer callback,  *)
(* reset) runs to completion, so each is one action.                       *)
(***************************************************************************)
EXTENDS Integers, Sequences, FiniteSets, TLC

\* ------------------------------------------------------------------ bounds
\* execute and reset invocations in one behaviour of Spec
MaxOps == 4
\* last value of the clock
MaxTime == 3
\* execute invocations in one behaviour of SpecSeq
SeqCalls == 12
\* log calls in one behaviour of SpecLogger
MaxLogs == 6

\* the callers whose execute calls are in flight together
Callers == {1, 2}

\* ------------------------------------------------------------------ types
CLOSED == "closed"
OPEN == "open"
HALF_OPEN == "half-open"

\* An optional Date field: << >> is undefined, <<t>> is new Date(t).
Undefined == << >>
Date(t) == <<t>>
getTime(d) == d[1]

\* { ...a, ...b }: the fields of both, b's value where both have the field
Spread(a, b) ==
    [k \in (DOMAIN a) \cup (DOMAIN b) |-> IF k \in DOMAIN b THEN b[k] ELSE a[k]]

VARIABLES
    cb,      \* the CircuitBreaker object: its fields, its options, and the
             \* events it handed to the event emitter in the latest handler
    calls,   \* per caller: where its execute call stands
    now,     \* Date.now()
    last,    \* the handler that ran last, and the state it started from
    trials,  \* successes recorded in HALF_OPEN since the circuit last entered it
    opened,  \* whether the circuit has been OPEN: "never", "sinceReset" (since
             \* its creation or its last reset) or "beforeReset" (only before)
    ops,     \* execute and reset invocations so far
    svc,     \* the CircuitBreakerService object: _isEnabled, config,
             \* defaultOptions and the circuitBreakers map
    stats,   \* the value getStats returned last
    logger   \* the UnifiedLoggerService object: its internal circuit breaker

vars == <<cb, calls, now, last, trials, opened, ops, svc, stats, logger>>

\* ------------------------------------------------------- CircuitBreaker
NewMetrics ==
    [requestCount |-> 0, failureCount |-> 0, successCount |-> 0,
     rejectedCount |-> 0, timeoutCount |-> 0, totalResponseTime |-> 0,
     totalVolume |-> 0]

NewCircuitBreaker(options) ==
    [state |-> CLOSED, failures |-> 0, successes |-> 0,
     lastFailureTime |-> Undefined, lastSuccessTime |-> Undefined,
     nextAttemptTime |-> Undefined, metrics |-> NewMetrics,
     options |-> options, eventEmitter |-> << >>,
     listener |-> "logs", thrown |-> FALSE]

\* emitStateChange reads this.state when it runs: its callers have already
\* assigned the new state. emit calls the listeners synchronously: when the
\* listener of the first event throws, the exception leaves emitStateChange
\* before the second emit (thrown: an exception is propagating).
emitStateChange(self, newState, reason) ==
    LET stateChange == [event |-> "circuit-breaker.state-change",
                        oldState |-> self.state, newState |-> newState,
                        reason |-> reason]
        specific == [event |-> "circuit-breaker." \o newState,
                     oldState |-> self.state, newState |-> newState,
                     reason |-> reason]
    IN  IF self.listener = "throws"
        THEN [self EXCEPT !.eventEmitter = @ \o <<stateChange>>,
                          !.thrown = TRUE]
        ELSE [self EXCEPT !.eventEmitter = @ \o <<stateChange, specific>>]

\* failureCount / requestCount * 100 as the fraction <<numerator, denominator>>
getErrorRate(self) ==
    IF self.metrics.requestCount = 0 THEN <<0, 1>>
    ELSE <<self.metrics.failureCount * 100, self.metrics.requestCount>>

\* rate >= percentage, for a rate <<numerator, denominator>>
RateAtLeast(rate, percentage) == rate[1] >= percentage * rate[2]

getSlowCallRate(self) == 0

\* shouldOpenCircuit with failures > failureThreshold for >=
shouldOpenCircuit_Strict(self) ==
    IF self.metrics.totalVolume < self.options.volumeThreshold THEN FALSE
    ELSE IF self.failures > self.options.failureThreshold THEN TRUE
    ELSE RateAtLeast(getErrorRate(self), self.options.errorThresholdPercentage)

\* shouldOpenCircuit without the volume threshold check
shouldOpenCircuit_NoVolume(self) ==
    IF self.failures >= self.options.failureThreshold THEN TRUE
    ELSE RateAtLeast(getErrorRate(self), self.options.errorThresholdPercentage)

shouldOpenCircuit(self) ==
    IF self.metrics.totalVolume < self.options.volumeThreshold THEN FALSE
    ELSE IF self.failures >= self.options.failureThreshold THEN TRUE
    ELSE RateAtLeast(getErrorRate(self), self.options.errorThresholdPercentage)

\* shouldAttemptReset counting the reset timeout a second time
shouldAttemptReset_Early(self, t) ==
    IF self.nextAttemptTime = Undefined
    THEN [self |-> [self EXCEPT !.nextAttemptTime = Date(t + self.options.resetTimeout)],
          ret |-> FALSE]
    ELSE [self |-> self,
          ret |-> t + self.options.resetTimeout >= getTime(self.nextAttemptTime)]

\* shouldAttemptReset with > for >=
shouldAttemptReset_Strict(self, t) ==
    IF self.nextAttemptTime = Undefined
    THEN [self |-> [self EXCEPT !.nextAttemptTime = Date(t + self.options.resetTimeout)],
          ret |-> FALSE]
    ELSE [self |-> self, ret |-> t > getTime(self.nextAttemptTime)]

\* returns the object (it may assign nextAttemptTime) and the answer
shouldAttemptReset(self, t) ==
    IF self.nextAttemptTime = Undefined
    THEN [self |-> [self EXCEPT !.nextAttemptTime = Date(t + self.options.resetTimeout)],
          ret |-> FALSE]
    ELSE [self |-> self, ret |-> t >= getTime(self.nextAttemptTime)]

openCircuit(self, t, reason) ==
    emitStateChange(
        [self EXCEPT !.state = OPEN,
                     !.nextAttemptTime = Date(t + self.options.resetTimeout)],
        OPEN, reason)

\* recordSuccess zeroing the metrics when it closes the circuit
recordSuccess_NewMetrics(self, t) ==
    LET s1 == [self EXCEPT !.successes = @ + 1,
                           !.metrics.successCount = @ + 1,
                           !.lastSuccessTime = Date(t)]
    IN  IF s1.state = HALF_OPEN /\ s1.successes >= s1.options.successThreshold
        THEN emitStateChange(
                 [s1 EXCEPT !.state = CLOSED, !.failures = 0, !.successes = 0,
                            !.metrics = NewMetrics],
                 CLOSED, "success_threshold_reached")
        ELSE s1

\* recordSuccess closing the circuit from any state but CLOSED
recordSuccess_NotClosed(self, t) ==
    LET s1 == [self EXCEPT !.successes = @ + 1,
                           !.metrics.successCount = @ + 1,
                           !.lastSuccessTime = Date(t)]
    IN  IF s1.state # CLOSED /\ s1.successes >= s1.options.successThreshold
        THEN emitStateChange(
                 [s1 EXCEPT !.state = CLOSED, !.failures = 0, !.successes = 0],
                 CLOSED, "success_threshold_reached")
        ELSE s1

recordSuccess(self, t) ==
    LET s1 == [self EXCEPT !.successes = @ + 1,
                           !.metrics.successCount = @ + 1,
                           !.lastSuccessTime = Date(t)]
    IN  IF s1.state = HALF_OPEN /\ s1.successes >= s1.options.successThreshold
        THEN emitStateChange(
                 [s1 EXCEPT !.state = CLOSED, !.failures = 0, !.successes = 0],
                 CLOSED, "success_threshold_reached")
        ELSE s1

\* recordFailure checking the open-conditions in HALF_OPEN as in CLOSED
recordFailure_Gated(self, t) ==
    LET s1 == [self EXCEPT !.failures = @ + 1,
                           !.metrics.failureCount = @ + 1,
                           !.lastFailureTime = Date(t)]
    IN  IF s1.state \in {HALF_OPEN, CLOSED} /\ shouldOpenCircuit(s1)
        THEN openCircuit(s1, t, "failure_threshold_exceeded")
        ELSE s1

recordFailure(self, t) ==
    LET s1 == [self EXCEPT !.failures = @ + 1,
                           !.metrics.failureCount = @ + 1,
                           !.lastFailureTime = Date(t)]
    IN  IF s1.state = HALF_OPEN THEN openCircuit(s1, t, "failure_in_half_open")
        ELSE IF s1.state = CLOSED /\ shouldOpenCircuit(s1)
             THEN openCircuit(s1, t, "failure_threshold_exceeded")
        ELSE s1

\* recordSlowCall recording a failure for every slow call
recordSlowCall_Always(self, t) == recordFailure(self, t)

recordSlowCall(self, t) ==
    IF getSlowCallRate(self) > self.options.slowCallRateThreshold
    THEN recordFailure(self, t)
    ELSE self

\* reset keeping nextAttemptTime
reset_KeepTime(self) ==
    emitStateChange(
        [self EXCEPT !.state = CLOSED, !.failures = 0, !.successes = 0,
                     !.metrics = NewMetrics],
        CLOSED, "manual_reset")

reset(self) ==
    emitStateChange(
        [self EXCEPT !.state = CLOSED, !.failures = 0, !.successes = 0,
                     !.nextAttemptTime = Undefined, !.metrics = NewMetrics],
        CLOSED, "manual_reset")

\* getStats counting the reads in the metrics
getStats_Counting(self) ==
    [self |-> [self EXCEPT !.metrics.requestCount = @ + 1],
     ret |-> [state |-> self.state, failures |-> self.failures,
              successes |-> self.successes,
              totalRequests |-> self.metrics.requestCount + 1]]

\* CircuitBreaker.getStats: the object (getStats assigns nothing) and the
\* snapshot; averageResponseTime is the fraction <<numerator, denominator>>,
\* an optional property that is absent is Undefined
getStats(self) ==
    LET totalRequests == self.metrics.requestCount
        averageResponseTime ==
            IF totalRequests > 0
            THEN <<self.metrics.totalResponseTime, totalRequests>>
            ELSE <<0, 1>>
    IN  [self |-> self,
         ret |-> [state |-> self.state, failures |-> self.failures,
                  successes |-> self.successes, totalRequests |-> totalRequests,
                  errorRate |-> getErrorRate(self),
                  metrics |-> Spread(self.metrics,
                                [averageResponseTime |-> averageResponseTime]),
                  lastFailureTime |-> self.lastFailureTime,
                  lastSuccessTime |-> self.lastSuccessTime,
                  nextAttemptTime |-> self.nextAttemptTime]]

\* execute up to the call of executeRequest: the object, and whether the call
\* is admitted (FALSE: it throws the circuit-open error)
execute(self, t) ==
    IF self.state = OPEN
    THEN LET r == shouldAttemptReset(self, t)
         IN  IF r.ret
             THEN LET s1 == emitStateChange([r.self EXCEPT !.state = HALF_OPEN],
                                            HALF_OPEN, "reset_timeout_expired")
                  IN  [self |-> s1, admitted |-> ~s1.thrown]
             ELSE [self |-> [r.self EXCEPT !.metrics.rejectedCount = @ + 1],
                   admitted |-> FALSE]
    ELSE [self |-> self, admitted |-> TRUE]

\* executeRequest before it awaits executeWithTimeout
executeRequestBegin(self) ==
    [self EXCEPT !.metrics.requestCount = @ + 1, !.metrics.totalVolume = @ + 1]

\* a catch block that throws the error again without recording it
executeRequestRejected_NotRecorded(self, t, startTime) == self

\* executeRequest after executeWithTimeout rejected (the catch block)
executeRequestRejected(self, t, startTime) ==
    LET responseTime == t - startTime
        s1 == [self EXCEPT !.metrics.totalResponseTime = @ + responseTime]
    IN  recordFailure(s1, t)

\* executeRequest after executeWithTimeout resolved: an exception thrown in
\* the try block is caught by the catch block, which records a failure and
\* throws again
executeRequestResolved(self, t, startTime) ==
    LET responseTime == t - startTime
        s1 == [self EXCEPT !.metrics.totalResponseTime = @ + responseTime]
        s2 == IF responseTime > s1.options.slowCallThreshold
              THEN recordSlowCall(s1, t) ELSE s1
        s3 == IF s2.thrown THEN s2 ELSE recordSuccess(s2, t)
    IN  IF s3.thrown
        THEN [executeRequestRejected([s3 EXCEPT !.thrown = FALSE], t, startTime)
                 EXCEPT !.thrown = TRUE]
        ELSE s3

\* the error execute throws on an OPEN circuit: new Error(message), an
\* object with the properties of Error only
openError(self) ==
    [constructor |-> "Error",
     message |-> "Circuit breaker is OPEN - rejecting request"]

\* the error the timer callback rejects with
timeoutError(self) ==
    [constructor |-> "Error", message |-> "Request timeout after"]

\* a timer callback that does not count the timeout
onTimeout_NoCount(self) == self

\* the timer callback of executeWithTimeout
onTimeout(self) == [self EXCEPT !.metrics.timeoutCount = @ + 1]

\* the timer of a call started at startTime may fire at t
timerDue(self, t, startTime) == t >= startTime + self.options.timeout

\* ------------------------------------------------------------------ state
IdleCall == [pc |-> "idle", startTime |-> 0, admittedIn |-> "none"]

\* what `last` records of a handler: which one, the state the circuit was in
\* when it started, how the execute call it belongs to ended ("pending": it
\* awaits fn), and how many times it invoked fn
Handler(op, result, invoked) ==
    [op |-> op, from |-> cb.state, result |-> result, invoked |-> invoked]

\* a handler starts with nothing handed to the event emitter yet and no
\* exception propagating
Fresh(self) == [self EXCEPT !.eventEmitter = << >>, !.thrown = FALSE]

\* how the execute call ended for its caller: with the exception of a
\* listener if one is propagating out of the handler, else as `result`
Outcome(self, result) == IF self.thrown THEN "subscriber-error" ELSE result

\* trials after a handler that took the circuit from state `from` to `self`
Trials(self, from, success) ==
    IF self.state # HALF_OPEN THEN 0
    ELSE IF from # HALF_OPEN THEN 0
    ELSE IF success THEN trials + 1 ELSE trials

\* opened after a handler that left the circuit as `self`
Opened(self) == IF self.state = OPEN THEN "sinceReset" ELSE opened

\* the defaults of the service and of the configuration it is initialized with
DefaultFailureThreshold == 5
DefaultSuccessThreshold == 3
DefaultErrorThresholdPercentage == 50
DefaultVolumeThreshold == 10
DefaultSlowCallRateThreshold == 50

\* Required<CircuitBreakerOptions>; the three durations are in clock ticks
Options(ft, st, to, pct, rt, vt) ==
    [failureThreshold |-> ft, successThreshold |-> st, timeout |-> to,
     errorThresholdPercentage |-> pct, resetTimeout |-> rt,
     volumeThreshold |-> vt, slowCallThreshold |-> 1,
     slowCallRateThreshold |-> DefaultSlowCallRateThreshold]

\* the merged options a circuit may be created with
OptionChoices ==
    { Options(th[1], st, 1, th[2], 1, vt) :
        th \in {<<2, 50>>, <<3, 100>>}, st \in {1, 2}, vt \in {1, 4} }

\* the default thresholds
DefaultOptions ==
    Options(DefaultFailureThreshold, DefaultSuccessThreshold, 1,
            DefaultErrorThresholdPercentage, 1, DefaultVolumeThreshold)

\* ------------------------------------------------- CircuitBreakerService
\* a CircuitBreakerService after its constructor: not enabled, no circuit.
\* circuitBreakers maps a name to a reference, objects holds the
\* CircuitBreaker objects created so far (a reference is an index into it).
NewCircuitBreakerService ==
    [_isEnabled |-> FALSE, config |-> Undefined, defaultOptions |-> Undefined,
     circuitBreakers |-> << >>, objects |-> << >>]

\* the options initialize adds to config.default
HardCodedOptions ==
    [volumeThreshold |-> DefaultVolumeThreshold, slowCallThreshold |-> 1,
     slowCallRateThreshold |-> DefaultSlowCallRateThreshold]

initialize(self, config) ==
    LET s1 == [self EXCEPT !.config = config]
    IN  IF ~config.enabled THEN s1
        ELSE [s1 EXCEPT !.defaultOptions = Spread(config.default, HardCodedOptions),
                        !._isEnabled = TRUE]

\* getOrCreateCircuitBreaker ignoring the options of the call
getOrCreateCircuitBreaker_NoOverride(self, name, options) ==
    IF name \in DOMAIN self.circuitBreakers THEN self
    ELSE LET serviceConfig == IF name \in DOMAIN self.config.services
                              THEN self.config.services[name] ELSE Undefined
             mergedOptions == Spread(self.defaultOptions, serviceConfig)
             ref == Len(self.objects) + 1
         IN  [self EXCEPT
                 !.objects = Append(@, NewCircuitBreaker(mergedOptions)),
                 !.circuitBreakers = Spread(@, [n \in {name} |-> ref])]

\* returns the service; the circuit is at circuitBreakers[name]
getOrCreateCircuitBreaker(self, name, options) ==
    IF name \in DOMAIN self.circuitBreakers THEN self
    ELSE LET serviceConfig == IF name \in DOMAIN self.config.services
                              THEN self.config.services[name] ELSE Undefined
             mergedOptions == Spread(Spread(self.defaultOptions, serviceConfig),
                                     options)
             ref == Len(self.objects) + 1
         IN  [self EXCEPT
                 !.objects = Append(@, NewCircuitBreaker(mergedOptions)),
                 !.circuitBreakers = Spread(@, [n \in {name} |-> ref])]

\* CircuitBreakerService.reset(name); found: FALSE when it throws 'not found'
serviceReset(self, name) ==
    IF name \notin DOMAIN self.circuitBreakers
    THEN [self |-> self, found |-> FALSE]
    ELSE [self |-> [self EXCEPT !.objects[self.circuitBreakers[name]] = reset(@)],
          found |-> TRUE]

\* resetAll resetting the circuits registered first only
resetAll_First(self) ==
    [self EXCEPT !.objects =
        [i \in DOMAIN @ |->
            IF \E n \in DOMAIN self.circuitBreakers :
                   self.circuitBreakers[n] = i /\ i = 1
            THEN reset(@[i]) ELSE @[i]]]

resetAll(self) ==
    [self EXCEPT !.objects =
        [i \in DOMAIN @ |->
            IF \E n \in DOMAIN self.circuitBreakers : self.circuitBreakers[n] = i
            THEN reset(@[i]) ELSE @[i]]]

\* getStats() and getStats('') take the branch of a falsy name
NoName == ""

\* CircuitBreakerService.getStats(name), and getStats() when name is
\* falsy: the service with the circuits as the getStats calls left them,
\* the snapshot or the snapshots by name, found: FALSE when it throws
serviceGetStats(self, name) ==
    IF name = NoName
    THEN [self |-> [self EXCEPT !.objects =
                       [i \in DOMAIN @ |->
                           IF \E n \in DOMAIN self.circuitBreakers :
                                  self.circuitBreakers[n] = i
                           THEN getStats(@[i]).self ELSE @[i]]],
          ret |-> [n \in DOMAIN self.circuitBreakers |->
                      getStats(self.objects[self.circuitBreakers[n]]).ret],
          found |-> TRUE]
    ELSE IF name \notin DOMAIN self.circuitBreakers
    THEN [self |-> self, ret |-> Undefined, found |-> FALSE]
    ELSE LET r == getStats(self.objects[self.circuitBreakers[name]])
         IN  [self |-> [self EXCEPT !.objects[self.circuitBreakers[name]] = r.self],
              ret |-> r.ret, found |-> TRUE]

\* execute registering a circuit with the default thresholds for the name
\* before it calls fn directly
serviceExecute_Registering(self, name, options) ==
    IF ~self._isEnabled
    THEN [self |-> [self EXCEPT
                       !.objects = Append(@, NewCircuitBreaker(HardCodedOptions)),
                       !.circuitBreakers =
                           Spread(@, [n \in {name} |-> Len(self.objects) + 1])],
          ref |-> 0]
    ELSE LET s1 == getOrCreateCircuitBreaker(self, name, options)
         IN  [self |-> s1, ref |-> s1.circuitBreakers[name]]

\* CircuitBreakerService.execute up to the call of fn or of
\* circuitBreaker.execute: the service and the reference of the circuit, 0
\* when fn is called directly
serviceExecute(self, name, options) ==
    IF ~self._isEnabled
    THEN [self |-> self, ref |-> 0]
    ELSE LET s1 == getOrCreateCircuitBreaker(self, name, options)
         IN  [self |-> s1, ref |-> s1.circuitBreakers[name]]

shutdown(self) == [self EXCEPT !.circuitBreakers = << >>, !._isEnabled = FALSE]

\* the fields of a UnifiedLoggerService that its circuit breaker uses, after
\* the constructor ran at time t; written counts the messages handed to the
\* transports
NewUnifiedLoggerService(t) ==
    [circuitBreakerOpen |-> FALSE, lastCircuitBreakerReset |-> t,
     errors |-> 0, written |-> 0]

\* eventEmitter.on('circuit-breaker.state-change', listener)
on(self, listener) == [self EXCEPT !.listener = listener]

InitCircuit(circuit) ==
    /\ cb = circuit
    /\ calls = [c \in Callers |-> IdleCall]
    /\ now = 0
    /\ last = [op |-> "init", from |-> CLOSED, result |-> "none", invoked |-> 0]
    /\ trials = 0
    /\ opened = "never"
    /\ ops = 0
    /\ svc = NewCircuitBreakerService
    /\ stats = Undefined
    /\ logger = NewUnifiedLoggerService(0)

InitWith(options) == InitCircuit(NewCircuitBreaker(options))

Init == \E options \in OptionChoices : InitWith(options)

\* ---------------------------------------------------------------- actions
\* CircuitBreaker.execute(fn) up to its first await: rejected, or fn is
\* invoked and the timer set.
Execute(c) ==
    /\ calls[c].pc = "idle"
    /\ LET r == execute(Fresh(cb), now)
       IN  IF r.admitted
           THEN /\ cb' = executeRequestBegin(r.self)
                /\ calls' = [calls EXCEPT ![c] =
                      [pc |-> "running", startTime |-> now,
                       admittedIn |-> r.self.state]]
                /\ last' = Handler("execute", "pending", 1)
           ELSE /\ cb' = r.self
                /\ UNCHANGED calls
                /\ last' = Handler("execute", Outcome(r.self, "rejected"), 0)
    /\ trials' = Trials(cb', cb.state, FALSE)
    /\ opened' = Opened(cb')
    /\ ops' = ops + 1
    /\ UNCHANGED now
    /\ UNCHANGED <<svc, stats, logger>>

\* fn resolved before the timer fired
Resolve(c) ==
    /\ calls[c].pc = "running"
    /\ cb' = executeRequestResolved(Fresh(cb), now, calls[c].startTime)
    /\ calls' = [calls EXCEPT ![c] = IdleCall]
    /\ trials' = Trials(cb', cb.state, TRUE)
    /\ opened' = Opened(cb')
    /\ last' = Handler("resolve", Outcome(cb', "resolved"), 0)
    /\ UNCHANGED <<now, ops>>
    /\ UNCHANGED <<svc, stats, logger>>

\* fn rejected before the timer fired
Reject(c) ==
    /\ calls[c].pc = "running"
    /\ cb' = executeRequestRejected(Fresh(cb), now, calls[c].startTime)
    /\ calls' = [calls EXCEPT ![c] = IdleCall]
    /\ trials' = Trials(cb', cb.state, FALSE)
    /\ opened' = Opened(cb')
    /\ last' = Handler("reject", Outcome(cb', "failed"), 0)
    /\ UNCHANGED <<now, ops>>
    /\ UNCHANGED <<svc, stats, logger>>

\* the timer fired first; fn keeps running
Timeout(c) ==
    /\ calls[c].pc = "running"
    /\ timerDue(cb, now, calls[c].startTime)
    /\ cb' = executeRequestRejected(onTimeout(Fresh(cb)), now, calls[c].startTime)
    /\ calls' = [calls EXCEPT ![c].pc = "abandoned"]
    /\ trials' = Trials(cb', cb.state, FALSE)
    /\ opened' = Opened(cb')
    /\ last' = Handler("timeout", Outcome(cb', "timeout"), 0)
    /\ UNCHANGED <<now, ops>>
    /\ UNCHANGED <<svc, stats, logger>>

\* fn settles after its call timed out: clearTimeout and the settled
\* promise's resolve/reject do nothing
LateSettle(c) ==
    /\ calls[c].pc = "abandoned"
    /\ calls' = [calls EXCEPT ![c] = IdleCall]
    /\ cb' = Fresh(cb)
    /\ last' = Handler("late", "none", 0)
    /\ UNCHANGED <<now, trials, opened, ops>>
    /\ UNCHANGED <<svc, stats, logger>>

Reset ==
    /\ cb' = reset(Fresh(cb))
    /\ trials' = 0
    /\ opened' = IF opened = "never" THEN "never" ELSE "beforeReset"
    /\ last' = Handler("reset", "none", 0)
    /\ ops' = ops + 1
    /\ UNCHANGED <<calls, now>>
    /\ UNCHANGED <<svc, stats, logger>>

Tick ==
    /\ now < MaxTime
    /\ now' = now + 1
    /\ cb' = Fresh(cb)
    /\ last' = Handler("tick", "none", 0)
    /\ UNCHANGED <<calls, trials, opened, ops>>
    /\ UNCHANGED <<svc, stats, logger>>

Next ==
    \/ \E c \in Callers : ops < MaxOps /\ Execute(c)
    \/ \E c \in Callers : Resolve(c)
    \/ \E c \in Callers : Reject(c)
    \/ \E c \in Callers : Timeout(c)
    \/ \E c \in Callers : LateSettle(c)
    \/ ops < MaxOps /\ Reset
    \/ Tick

Spec == Init /\ [][Next]_vars

\* One caller that awaits each call before it makes the next, on a circuit
\* created with the default thresholds and never reset.
InitSeq == InitWith(DefaultOptions)

NextSeq ==
    \/ ops < SeqCalls /\ Execute(1)
    \/ Resolve(1)
    \/ Reject(1)
    \/ Timeout(1)
    \/ LateSettle(1)
    \/ Tick

SpecSeq == InitSeq /\ [][NextSeq]_vars

\* ---------------------------------------------------- service actions
\* the names execute is called with
Names == {"a", "b"}

\* the configuration the service is initialized with: the defaults, and
\* thresholds of its own for the resource "a"
ServiceConfig(enabled) ==
    [enabled |-> enabled,
     default |-> [failureThreshold |-> DefaultFailureThreshold,
                  successThreshold |-> DefaultSuccessThreshold,
                  timeout |-> 1,
                  errorThresholdPercentage |-> DefaultErrorThresholdPercentage,
                  resetTimeout |-> 1],
     services |-> [a |-> [failureThreshold |-> 2, successThreshold |-> 1]]]

\* the options argument of execute: none, or a circuit that opens at its
\* first failure
Overrides == {Undefined, [failureThreshold |-> 1, volumeThreshold |-> 1]}

\* a handler of the service starts with nothing handed to the event emitter
FreshAll(self) == [self EXCEPT !.objects = [i \in DOMAIN @ |-> Fresh(@[i])]]

\* what `last` records of a handler of the service
ServiceHandler(op, name, result, invoked) ==
    [op |-> op, from |-> "none", result |-> result, invoked |-> invoked,
     name |-> name]

\* what `last` records of an execute: also the options it was called with
ExecuteHandler(name, options, result, invoked) ==
    Spread(ServiceHandler("execute", name, result, invoked),
           [options |-> options])

\* a call in flight: target is the reference of its circuit, 0 when fn was
\* called directly
ServiceCall(target) ==
    [pc |-> "running", startTime |-> now, admittedIn |-> "none",
     target |-> target]

\* the observability service initializes the service once, and not while
\* it is enabled
Initialize(enabled) ==
    /\ ~svc._isEnabled
    /\ svc' = initialize(svc, ServiceConfig(enabled))
    /\ last' = ServiceHandler("initialize", NoName, "none", 0)
    /\ ops' = ops + 1
    /\ UNCHANGED <<cb, calls, now, trials, opened, stats, logger>>

\* CircuitBreakerService.execute(name, fn, options) up to its first await
ServiceExecute(c, name, options) ==
    /\ calls[c].pc = "idle"
    /\ LET s1 == serviceExecute(svc, name, options).self
           ref == serviceExecute(svc, name, options).ref
       IN  IF ref = 0
           THEN /\ svc' = s1
                /\ calls' = [calls EXCEPT ![c] = ServiceCall(0)]
                /\ last' = ExecuteHandler(name, options, "pending", 1)
           ELSE LET r == execute(Fresh(s1.objects[ref]), now)
                IN  IF r.admitted
                THEN /\ svc' = [s1 EXCEPT !.objects[ref] =
                                              executeRequestBegin(r.self)]
                     /\ calls' = [calls EXCEPT ![c] = ServiceCall(ref)]
                     /\ last' = ExecuteHandler(name, options, "pending", 1)
                ELSE /\ svc' = [s1 EXCEPT !.objects[ref] = r.self]
                     /\ UNCHANGED calls
                     /\ last' = ExecuteHandler(name, options,
                                               Outcome(r.self, "rejected"), 0)
    /\ ops' = ops + 1
    /\ UNCHANGED <<cb, now, trials, opened, stats, logger>>

\* fn resolved: the continuation of executeRequest on the circuit of the
\* call, or of CircuitBreakerService.execute when fn was called directly
ServiceResolve(c) ==
    /\ calls[c].pc = "running"
    /\ LET ref == calls[c].target
       IN  IF ref = 0
           THEN /\ svc' = svc
                /\ last' = ServiceHandler("resolve", NoName, "resolved", 0)
           ELSE /\ svc' = [svc EXCEPT !.objects[ref] =
                       executeRequestResolved(Fresh(@), now, calls[c].startTime)]
                /\ last' = ServiceHandler("resolve", NoName,
                               Outcome(svc'.objects[ref], "resolved"), 0)
    /\ calls' = [calls EXCEPT ![c] = IdleCall]
    /\ UNCHANGED <<cb, now, trials, opened, ops, stats, logger>>

\* fn rejected
ServiceReject(c) ==
    /\ calls[c].pc = "running"
    /\ LET ref == calls[c].target
       IN  IF ref = 0
           THEN /\ svc' = svc
                /\ last' = ServiceHandler("reject", NoName, "failed", 0)
           ELSE /\ svc' = [svc EXCEPT !.objects[ref] =
                       executeRequestRejected(Fresh(@), now, calls[c].startTime)]
                /\ last' = ServiceHandler("reject", NoName,
                               Outcome(svc'.objects[ref], "failed"), 0)
    /\ calls' = [calls EXCEPT ![c] = IdleCall]
    /\ UNCHANGED <<cb, now, trials, opened, ops, stats, logger>>

\* CircuitBreakerService.getStats(name) and getStats()
GetStats(name) ==
    /\ LET r == serviceGetStats(svc, name)
       IN  /\ svc' = r.self
           /\ stats' = IF r.found THEN r.ret ELSE stats
           /\ last' = ServiceHandler("getStats", name,
                          IF r.found THEN "returned" ELSE "not-found", 0)
    /\ ops' = ops + 1
    /\ UNCHANGED <<cb, calls, now, trials, opened, logger>>

\* CircuitBreakerService.reset(name)
ServiceReset(name) ==
    /\ LET r == serviceReset(FreshAll(svc), name)
       IN  /\ svc' = r.self
           /\ last' = ServiceHandler("reset", name,
                          IF r.found THEN "none" ELSE "not-found", 0)
    /\ ops' = ops + 1
    /\ UNCHANGED <<cb, calls, now, trials, opened, stats, logger>>

ResetAll ==
    /\ svc' = resetAll(FreshAll(svc))
    /\ last' = ServiceHandler("resetAll", NoName, "none", 0)
    /\ ops' = ops + 1
    /\ UNCHANGED <<cb, calls, now, trials, opened, stats, logger>>

Shutdown ==
    /\ svc' = shutdown(svc)
    /\ last' = ServiceHandler("shutdown", NoName, "none", 0)
    /\ ops' = ops + 1
    /\ UNCHANGED <<cb, calls, now, trials, opened, stats, logger>>

\* the caller that makes the next call: callers differ in nothing but the
\* slot their call takes, so the next call takes the first idle one
NextCaller(c) == calls[c].pc = "idle" /\ \A d \in Callers : d < c => calls[d].pc # "idle"

\* the clock of the service runs until the default resetTimeout has passed
ServiceTick == now < ServiceConfig(TRUE).default.resetTimeout /\ Tick

\* The service: initialize, execute under two names with and without
\* options, the completions of fn, getStats, reset, resetAll, shutdown and
\* the clock.
NextService ==
    \/ \E enabled \in BOOLEAN : ops < MaxOps /\ Initialize(enabled)
    \/ \E c \in Callers, name \in Names, options \in Overrides :
          ops < MaxOps /\ NextCaller(c) /\ ServiceExecute(c, name, options)
    \/ \E c \in Callers : ServiceResolve(c)
    \/ \E c \in Callers : ServiceReject(c)
    \/ \E name \in Names \cup {NoName} : ops < MaxOps /\ GetStats(name)
    \/ \E name \in Names : ops < MaxOps /\ ServiceReset(name)
    \/ ops < MaxOps /\ ResetAll
    \/ ops < MaxOps /\ Shutdown
    \/ ServiceTick

SpecService == InitWith(DefaultOptions) /\ [][NextService]_vars

\* ------------------------------------------------- CircuitBreakerGuard
\* CircuitBreakerGuard.canActivate for an endpoint whose circuit exists, the
\* service being enabled: FALSE when it throws ServiceUnavailableException
canActivate(self) ==
    LET snapshot == getStats(self).ret
    IN  snapshot.state # OPEN

\* a request to the guarded endpoint: the guard, then the handler, which
\* passes the protected operation to execute
GuardedExecute(c) ==
    IF canActivate(cb)
    THEN Execute(c)
    ELSE /\ calls[c].pc = "idle"
         /\ cb' = Fresh(cb)
         /\ last' = Handler("guard", "unavailable", 0)
         /\ ops' = ops + 1
         /\ UNCHANGED <<calls, now, trials, opened, svc, stats, logger>>

\* The circuit of Spec, never reset, behind the guard: every request passes
\* the guard before execute is called.
NextGuard ==
    \/ \E c \in Callers : ops < MaxOps /\ GuardedExecute(c)
    \/ \E c \in Callers : Resolve(c)
    \/ \E c \in Callers : Reject(c)
    \/ \E c \in Callers : Timeout(c)
    \/ \E c \in Callers : LateSettle(c)
    \/ Tick

SpecGuard == Init /\ [][NextGuard]_vars

\* ------------------------------------------------ UnifiedLoggerService
\* config.circuitBreaker of the logger, resetTimeout in clock ticks
LoggerCircuitBreaker == [enabled |-> TRUE, failureThreshold |-> 2, resetTimeout |-> 1]

\* isEnabled(level) for a level that is enabled
isEnabled(self) == ~self.circuitBreakerOpen

handleCircuitBreakerOpen(self, t) ==
    IF t - self.lastCircuitBreakerReset > LoggerCircuitBreaker.resetTimeout
    THEN [self EXCEPT !.circuitBreakerOpen = FALSE, !.lastCircuitBreakerReset = t]
    ELSE self

handleLogError(self, t) ==
    LET s1 == [self EXCEPT !.errors = @ + 1]
    IN  IF LoggerCircuitBreaker.enabled
           /\ s1.errors >= LoggerCircuitBreaker.failureThreshold
        THEN [s1 EXCEPT !.circuitBreakerOpen = TRUE, !.lastCircuitBreakerReset = t]
        ELSE s1

\* writeLog at time t; outcome is what happens if it gets to write: the
\* message is "written", a transport fails ("transport-error", which
\* writeToTransports catches and counts) or the try block "throws"
writeLog(self, t, outcome) ==
    IF ~isEnabled(self)
    THEN [self |-> self, result |-> "skipped"]
    ELSE IF self.circuitBreakerOpen
    THEN [self |-> handleCircuitBreakerOpen(self, t), result |-> "circuit-open"]
    ELSE IF outcome = "throws"
    THEN [self |-> handleLogError(self, t), result |-> "error"]
    ELSE IF outcome = "transport-error"
    THEN [self |-> [self EXCEPT !.errors = @ + 1], result |-> "transport-error"]
    ELSE [self |-> [self EXCEPT !.written = @ + 1], result |-> "written"]

\* a log call (log, info, error, ...) of an enabled level
Log(outcome) ==
    /\ LET r == writeLog(logger, now, outcome)
       IN  /\ logger' = r.self
           /\ last' = Handler("log", r.result, 0)
    /\ ops' = ops + 1
    /\ UNCHANGED <<cb, calls, now, trials, opened, svc, stats>>

\* The logger: log calls and the clock.
NextLogger ==
    \/ \E outcome \in {"written", "transport-error", "throws"} :
          ops < MaxLogs /\ Log(outcome)
    \/ Tick

SpecLogger == InitWith(DefaultOptions) /\ [][NextLogger]_vars

\* The circuits of Spec with a listener on 'circuit-breaker.state-change'
\* that throws.
InitThrow ==
    \E options \in OptionChoices :
        InitCircuit(on(NewCircuitBreaker(options), "throws"))

SpecThrow == InitThrow /\ [][Next]_vars

\* ------------------------------------------------------------ properties
\* the handler that just ran recorded a failure: the catch block of
\* executeRequest ran, after fn rejected or after the timer fired
FailureRecorded == last'.op \in {"reject", "timeout"}

\* the open-conditions, read off a circuit's counters
OpenConditions(self) ==
    /\ self.metrics.totalVolume >= self.options.volumeThreshold
    /\ \/ self.failures >= self.options.failureThreshold
       \/ /\ self.metrics.requestCount > 0
          /\ self.metrics.failureCount * 100
               >= self.options.errorThresholdPercentage * self.metrics.requestCount

\* C1: while the circuit is Open and now < nextAttemptTime, every execute call
\* is rejected, does not invoke the protected operation, adds exactly 1 to
\* rejectedCount and leaves state, failures, successes, requestCount,
\* totalVolume and nextAttemptTime as they were (an Open circuit always has a
\* nextAttemptTime).
C1_FastRejection ==
    [][ /\ (cb'.state = OPEN => cb'.nextAttemptTime # Undefined)
        /\ ( ( /\ last'.op = "execute"
               /\ cb.state = OPEN
               /\ cb.nextAttemptTime # Undefined
               /\ now < getTime(cb.nextAttemptTime) )
             => /\ last'.result = "rejected"
                /\ last'.invoked = 0
                /\ calls' = calls
                /\ cb'.metrics.rejectedCount = cb.metrics.rejectedCount + 1
                /\ cb'.state = OPEN
                /\ cb'.failures = cb.failures
                /\ cb'.successes = cb.successes
                /\ cb'.metrics.requestCount = cb.metrics.requestCount
                /\ cb'.metrics.totalVolume = cb.metrics.totalVolume
                /\ cb'.nextAttemptTime = cb.nextAttemptTime ) ]_vars

\* a call was just rejected by an Open circuit whose reset timeout had not elapsed
C1_Witness ==
    /\ last.op = "execute" /\ last.from = OPEN /\ last.result = "rejected"
    /\ cb.state = OPEN /\ now < getTime(cb.nextAttemptTime)
    /\ cb.metrics.rejectedCount = 1

\* C2: a failure recorded while the circuit is Closed opens it if and only if
\* totalVolume >= volumeThreshold and (failures >= failureThreshold or
\* failureCount / requestCount * 100 >= errorThresholdPercentage), all read
\* after the failure is counted; when it opens, nextAttemptTime = now + resetTimeout.
C2_OpenCondition ==
    [][ (FailureRecorded /\ cb.state = CLOSED)
        => /\ cb'.state \in {CLOSED, OPEN}
           /\ cb'.state = OPEN <=> OpenConditions(cb')
           /\ cb'.state = OPEN
                => cb'.nextAttemptTime = Date(now + cb.options.resetTimeout) ]_vars

\* a failure just opened a Closed circuit on the failure count alone, the
\* error rate being under its threshold
C2_Witness ==
    /\ last.op \in {"reject", "timeout"} /\ last.from = CLOSED
    /\ cb.state = OPEN
    /\ cb.failures >= cb.options.failureThreshold
    /\ cb.metrics.failureCount * 100
         < cb.options.errorThresholdPercentage * cb.metrics.requestCount
    /\ cb.nextAttemptTime = Date(now + cb.options.resetTimeout)

\* C3: whatever calls run and however they interleave, the circuit does not
\* leave Closed while totalVolume < volumeThreshold.
C3_VolumeGating ==
    [][ (cb.state = CLOSED /\ cb'.state # CLOSED)
        => cb'.metrics.totalVolume >= cb.options.volumeThreshold ]_vars

\* failureThreshold failures are recorded, the volume is under its threshold,
\* and the circuit is still Closed
C3_Witness ==
    /\ last.op \in {"reject", "timeout"}
    /\ cb.state = CLOSED
    /\ cb.failures >= cb.options.failureThreshold
    /\ cb.metrics.totalVolume < cb.options.volumeThreshold

\* the only call of the sequential caller has completed
Completed == calls[1].pc # "running"

\* C4 as stated: with volumeThreshold = 10 and failureThreshold = 5, once 10
\* sequential calls on a fresh circuit have completed, 5 or more of them
\* failures, the circuit is Open.
C4_OpenAfterTenCalls ==
    ( /\ cb.metrics.requestCount = DefaultVolumeThreshold
      /\ Completed
      /\ cb.metrics.failureCount >= DefaultFailureThreshold )
    => cb.state = OPEN

\* C4 as amended: with volumeThreshold = 10 and failureThreshold = 5, the
\* circuit is Closed until the 10th sequential call on a fresh circuit
\* completes; when 5 or more of the 10 calls fail, it opens at the completion
\* of the 10th call if and only if the 10th call is itself a failure, and is
\* Closed after the 10 calls otherwise.
C4_ThresholdOpening ==
    [][ /\ ( ( \/ cb'.metrics.requestCount < DefaultVolumeThreshold
               \/ (cb'.metrics.requestCount = DefaultVolumeThreshold /\ ~Completed') )
             => cb'.state = CLOSED )
        /\ ( ( /\ cb.metrics.requestCount = DefaultVolumeThreshold
               /\ ~Completed /\ Completed'
               /\ cb'.metrics.failureCount >= DefaultFailureThreshold )
             => /\ FailureRecorded => cb'.state = OPEN
                /\ ~FailureRecorded => cb'.state = CLOSED ) ]_vars

\* the 10th call failed, 5 or more failures are counted, and that call opened
\* the circuit
C4_Witness ==
    /\ last.op \in {"reject", "timeout"} /\ last.from = CLOSED
    /\ cb.metrics.requestCount = DefaultVolumeThreshold
    /\ cb.metrics.failureCount >= DefaultFailureThreshold
    /\ cb.state = OPEN

\* C5: on an Open circuit with now >= nextAttemptTime, the next execute call
\* moves the circuit to HalfOpen, is not rejected, leaves rejectedCount alone
\* and invokes the protected operation exactly once.
C5_HalfOpenProbing ==
    [][ ( /\ last'.op = "execute"
          /\ cb.state = OPEN
          /\ cb.nextAttemptTime # Undefined
          /\ now >= getTime(cb.nextAttemptTime) )
        => /\ cb'.state = HALF_OPEN
           /\ last'.result = "pending"
           /\ last'.invoked = 1
           /\ cb'.metrics.rejectedCount = cb.metrics.rejectedCount
           /\ \E c \in Callers :
                 /\ calls[c].pc = "idle"
                 /\ calls'[c].pc = "running"
                 /\ calls'[c].admittedIn = HALF_OPEN ]_vars

\* a call just took the circuit from Open to HalfOpen and is awaiting fn
C5_Witness ==
    /\ last.op = "execute" /\ last.from = OPEN
    /\ cb.state = HALF_OPEN
    /\ last.invoked = 1
    /\ now = getTime(cb.nextAttemptTime)

\* C6: a failure (fn rejected, or the timeout) recorded while the circuit is
\* HalfOpen opens it at once with nextAttemptTime = now + resetTimeout,
\* whatever the volume, the failure count and the error rate.
C6_HalfOpenFailure ==
    [][ (FailureRecorded /\ cb.state = HALF_OPEN)
        => /\ cb'.state = OPEN
           /\ cb'.nextAttemptTime = Date(now + cb.options.resetTimeout) ]_vars

\* a failure just re-opened a HalfOpen circuit whose counters do not meet
\* the open-conditions
C6_Witness ==
    /\ last.op \in {"reject", "timeout"} /\ last.from = HALF_OPEN
    /\ cb.state = OPEN
    /\ ~OpenConditions(cb)

\* C7: the circuit goes from HalfOpen to Closed (other than by reset) only
\* when at least successThreshold calls have succeeded since it last entered
\* HalfOpen.
C7_ClosingNeedsTrials ==
    [][ (cb.state = HALF_OPEN /\ cb'.state = CLOSED /\ last'.op # "reset")
        => trials + 1 >= cb.options.successThreshold ]_vars

\* C8: in the state right after the circuit leaves HalfOpen, to Closed or to
\* Open, successes = 0.
C8_SuccessesReset ==
    [][ (cb.state = HALF_OPEN /\ cb'.state # HALF_OPEN) => cb'.successes = 0 ]_vars

\* C9: a call that succeeds while the circuit is HalfOpen closes it, with
\* failures = 0 and successes = 0, when it is the successThreshold-th success
\* since the circuit entered HalfOpen; an earlier one only adds 1 to
\* successes and leaves the circuit HalfOpen.
C9_HalfOpenSuccess ==
    [][ (last'.op = "resolve" /\ cb.state = HALF_OPEN)
        => IF trials + 1 >= cb.options.successThreshold
           THEN cb'.state = CLOSED /\ cb'.failures = 0 /\ cb'.successes = 0
           ELSE /\ cb'.state = HALF_OPEN
                /\ cb'.successes = cb.successes + 1
                /\ cb'.failures = cb.failures ]_vars

TrialsInFlight ==
    {c \in Callers : calls[c].pc = "running" /\ calls[c].admittedIn = HALF_OPEN}

\* C11: at most one protected operation admitted in HalfOpen is in flight at
\* any time: a call that arrives while a trial is in flight does not run its
\* operation beside it.
C11_SingleTrial == Cardinality(TrialsInFlight) <= 1

\* C12: in every reachable state, with reset() interleaved with calls in
\* flight too, 0 <= failures <= requestCount and 0 <= successes <= requestCount.
C12_CountersBounded ==
    /\ 0 <= cb.failures /\ cb.failures <= cb.metrics.requestCount
    /\ 0 <= cb.successes /\ cb.successes <= cb.metrics.requestCount

\* C13 as stated: nextAttemptTime is defined if and only if the circuit has
\* been Open at some point of its history.
C13_DefinedIffEverOpen ==
    (cb.nextAttemptTime # Undefined) <=> (opened # "never")

\* C13 as amended: nextAttemptTime is defined if and only if the circuit has
\* been Open at some point since its creation or, if it was reset, since its
\* last reset().
C13_DefinedIffOpenedSinceReset ==
    (cb.nextAttemptTime # Undefined) <=> (opened = "sinceReset")

\* the circuit was Open, has closed again through HalfOpen without a reset,
\* and nextAttemptTime is still defined
C13_Witness ==
    /\ last.op = "resolve" /\ last.from = HALF_OPEN
    /\ cb.state = CLOSED
    /\ opened = "sinceReset"
    /\ cb.nextAttemptTime # Undefined

\* C14: when the timer fires before fn settles, execute rejects with the
\* timeout error, timeoutCount grows by 1, and the call is recorded as a
\* failure of fn would be: failureCount and failures grow by 1,
\* lastFailureTime is set to now, a HalfOpen circuit opens, a Closed circuit
\* opens exactly when the open-conditions are met, an Open one stays Open.
C14_TimeoutIsFailure ==
    [][ last'.op = "timeout"
        => /\ last'.result = "timeout"
           /\ cb'.metrics.timeoutCount = cb.metrics.timeoutCount + 1
           /\ cb'.metrics.failureCount = cb.metrics.failureCount + 1
           /\ cb'.metrics.successCount = cb.metrics.successCount
           /\ cb'.failures = cb.failures + 1
           /\ cb'.lastFailureTime = Date(now)
           /\ cb.state = HALF_OPEN => cb'.state = OPEN
           /\ cb.state = OPEN => cb'.state = OPEN
           /\ cb.state = CLOSED
                => IF OpenConditions(cb') THEN cb'.state = OPEN
                                          ELSE cb'.state = CLOSED ]_vars

\* the first timeout of a circuit hit a HalfOpen trial and re-opened it
C14_Witness ==
    /\ last.op = "timeout" /\ last.from = HALF_OPEN
    /\ cb.state = OPEN
    /\ cb.metrics.timeoutCount = 1
    /\ cb.lastFailureTime = Date(now)

\* what a late settlement must leave alone: everything but the events of the
\* handler
Recorded(self) == Fresh(self)

C16_CountedAtCompletion ==
    /\ cb.metrics.requestCount = cb.metrics.successCount + cb.metrics.failureCount
    /\ cb.metrics.totalVolume = cb.metrics.successCount + cb.metrics.failureCount

\* C17: a slow call is a failure signal: when the only call made so far
\* resolved after more than slowCallThreshold (a slow-call rate of 100%,
\* above slowCallRateThreshold), a failure was recorded for it, although fn
\* resolved.
C17_SlowCallFailure ==
    ( /\ last.op = "resolve"
      /\ cb.metrics.requestCount = 1
      /\ cb.metrics.totalResponseTime > cb.options.slowCallThreshold
      /\ 100 > cb.options.slowCallRateThreshold )
    => /\ cb.metrics.failureCount = 1
       /\ cb.failures = 1

\* the stateChange events the latest handler handed to the event emitter
StateChangeEvents ==
    {i \in DOMAIN cb.eventEmitter :
        cb.eventEmitter[i].event = "circuit-breaker.state-change"}

\* C19: every stateChange notification of a transition (Closed -> Open,
\* Open -> HalfOpen, HalfOpen -> Open, HalfOpen -> Closed) carries as oldState
\* the state the circuit was in just before the transition, which differs
\* from its newState.
C19_OldAndNewState ==
    last.op # "reset"
    => \A i \in StateChangeEvents :
          /\ cb.eventEmitter[i].oldState = last.from
          /\ cb.eventEmitter[i].oldState # cb.eventEmitter[i].newState

\* the event the observability service registers its alerting handler on
OpenedListenerEvent == "circuit-breaker.opened"

\* the invocations of the alerting handler by the latest handler of the
\* circuit: the events emitted under the name it is registered on
sendAlert(self) ==
    {i \in DOMAIN self.eventEmitter :
        self.eventEmitter[i].event = OpenedListenerEvent}

\* C20: each time the circuit opens, the alerting handler registered for the
\* circuit-breaker opened event is invoked once.
C20_OpenedAlert ==
    (cb.state = OPEN /\ last.from # OPEN) => Cardinality(sendAlert(cb)) = 1

\* C18: an error thrown by a subscriber while a state-transition notification
\* is delivered never reaches the caller of execute: the call ends with fn's
\* result, with fn's own error, with the timeout error or with the
\* circuit-open rejection.
C18_SubscriberErrorSwallowed ==
    last.op \in {"execute", "resolve", "reject", "timeout"}
    => last.result # "subscriber-error"

\* C21: getStats is a pure read: it changes neither a circuit nor the
\* registry, a second getStats for the same name that follows it at once
\* returns the same value, and the value returned is not altered by the
\* handlers that run afterwards.
C21_GetStatsPure ==
    [][ /\ last'.op = "getStats" => svc' = svc
        /\ ( /\ last.op = "getStats" /\ last.result = "returned"
             /\ last'.op = "getStats" /\ last'.result = "returned"
             /\ last'.name = last.name )
           => stats' = stats
        /\ last'.op # "getStats" => stats' = stats ]_vars

\* getStats("a") returned the snapshot of a circuit with a call in flight
C21_Witness ==
    /\ last.op = "getStats" /\ last.name = "a" /\ last.result = "returned"
    /\ stats.totalRequests = 1
    /\ \E c \in Callers : calls[c].pc = "running"

\* the circuit is as reset() leaves it, and the closed notification with the
\* manual-reset reason was emitted
IsReset(self) ==
    /\ self.state = CLOSED
    /\ self.failures = 0
    /\ self.successes = 0
    /\ self.metrics = NewMetrics
    /\ self.nextAttemptTime = Undefined
    /\ \E i \in DOMAIN self.eventEmitter :
          /\ self.eventEmitter[i].event = "circuit-breaker.closed"
          /\ self.eventEmitter[i].reason = "manual_reset"

\* the circuit registered under name
Registered(name) == svc.objects[svc.circuitBreakers[name]]

\* C22: from any state reset() leaves the circuit Closed with failures,
\* successes and every metrics counter 0 and nextAttemptTime undefined, and
\* emits the closed notification with the manual-reset reason; resetAll()
\* does so for every registered circuit.
C22_ResetClears ==
    /\ (last.op = "reset" /\ last.result = "none") => IsReset(Registered(last.name))
    /\ last.op = "resetAll"
         => \A name \in DOMAIN svc.circuitBreakers : IsReset(Registered(name))

\* resetAll ran on two registered circuits, one of which had recorded a
\* failure
C22_Witness ==
    /\ last.op = "resetAll"
    /\ DOMAIN svc.circuitBreakers = Names
    /\ \E name \in Names : Registered(name).lastFailureTime # Undefined

\* the value of option k by priority: the options of the call, then the
\* configuration of the resource, then the defaults of the service
ByPriority(k, options, name, self) ==
    IF k \in DOMAIN options THEN options[k]
    ELSE IF name \in DOMAIN self.config.services
            /\ k \in DOMAIN self.config.services[name]
         THEN self.config.services[name][k]
    ELSE self.defaultOptions[k]

\* C23: the options of a circuit are determined once, when execute creates
\* it, field by field as call options > configuration of the resource >
\* defaults; no handler changes them afterwards, and an execute for a name
\* that has a circuit reuses that circuit whatever options it is given.
C23_OptionsFixed ==
    [][ /\ \A i \in DOMAIN svc.objects :
              /\ i \in DOMAIN svc'.objects
              /\ svc'.objects[i].options = svc.objects[i].options
        /\ (last'.op = "execute" /\ svc._isEnabled)
           => LET name == last'.name
              IN  IF name \in DOMAIN svc.circuitBreakers
                  THEN /\ svc'.circuitBreakers = svc.circuitBreakers
                       /\ Len(svc'.objects) = Len(svc.objects)
                  ELSE LET created == svc'.objects[svc'.circuitBreakers[name]]
                       IN  /\ Len(svc'.objects) = Len(svc.objects) + 1
                           /\ \A k \in DOMAIN created.options :
                                 created.options[k] =
                                     ByPriority(k, last'.options, name, svc) ]_vars

\* execute("a", fn, options) ran on the circuit that an execute without
\* options had created: the circuit keeps the failureThreshold of the
\* configuration of "a" and the default volumeThreshold
C23_Witness ==
    /\ last.op = "execute" /\ last.name = "a"
    /\ DOMAIN last.options # {}
    /\ "a" \in DOMAIN svc.circuitBreakers
    /\ Registered("a").options.failureThreshold = 2
    /\ Registered("a").options.volumeThreshold = DefaultVolumeThreshold
    /\ Registered("a").metrics.requestCount = 2

C25_ErrorVerbatim ==
    /\ (last.op = "execute" /\ last.result = "pending") => last.invoked = 1
    /\ last.op = "reject"
         => /\ last.result = "failed"
            /\ last.invoked = 0
            /\ cb.lastFailureTime = Date(now)
            /\ cb.failures >= 1
            /\ cb.metrics.failureCount >= 1

\* fn rejected and its error reached the caller after the failure had opened
\* the circuit
C25_Witness ==
    /\ last.op = "reject" /\ last.result = "failed" /\ last.from = CLOSED
    /\ cb.state = OPEN
    /\ cb.metrics.failureCount = 2

\* C26: the error execute rejects with on an Open circuit is a
\* CircuitOpenError, of a class of its own that tells it from the timeout
\* error and from an operation's Error, and it carries the circuit's name,
\* nextAttemptTime, errorRate and totalRequests.
C26_CircuitOpenError ==
    (last.op = "execute" /\ last.result = "rejected")
    => /\ openError(cb).constructor # timeoutError(cb).constructor
       /\ openError(cb).constructor # "Error"
       /\ {"name", "nextAttemptTime", "errorRate", "totalRequests"}
              \subseteq DOMAIN openError(cb)

\* C27: only calls admitted while the circuit was HalfOpen decide the
\* HalfOpen phase: when a call admitted while the circuit was Closed
\* completes (fn settles or its timer fires) while the circuit is HalfOpen,
\* the circuit stays HalfOpen and its successes are not counted up.
C27_OnlyTrialsDecide ==
    [][ \A c \in Callers :
          ( /\ calls[c].pc = "running"
            /\ calls[c].admittedIn = CLOSED
            /\ cb.state = HALF_OPEN
            /\ calls'[c].pc # "running"
            /\ last'.op \in {"resolve", "reject", "timeout"} )
          => /\ cb'.state = HALF_OPEN
             /\ cb'.successes = cb.successes ]_vars

\* C28: the HalfOpen -> Closed transition resets failures and successes
\* only: the handler of the success that closes the circuit leaves
\* requestCount, failureCount, rejectedCount, timeoutCount, totalVolume and
\* nextAttemptTime as they were and successCount is the count of all
\* successes (the closing one added, nothing reset), so the error rate of
\* the Closed circuit is still failureCount / requestCount over its lifetime.
C28_ClosingKeepsMetrics ==
    [][ (cb.state = HALF_OPEN /\ cb'.state = CLOSED /\ last'.op = "resolve")
        => /\ cb'.failures = 0
           /\ cb'.successes = 0
           /\ cb'.metrics.requestCount = cb.metrics.requestCount
           /\ cb'.metrics.failureCount = cb.metrics.failureCount
           /\ cb'.metrics.successCount = cb.metrics.successCount + 1
           /\ cb'.metrics.rejectedCount = cb.metrics.rejectedCount
           /\ cb'.metrics.timeoutCount = cb.metrics.timeoutCount
           /\ cb'.metrics.totalVolume = cb.metrics.totalVolume
           /\ cb'.nextAttemptTime = cb.nextAttemptTime
           /\ getErrorRate(cb') = getErrorRate(cb) ]_vars

\* the circuit has just closed from HalfOpen and keeps the failure that had
\* opened it in its error rate
C28_Witness ==
    /\ last.op = "resolve" /\ last.from = HALF_OPEN
    /\ cb.state = CLOSED
    /\ cb.failures = 0
    /\ cb.metrics.failureCount >= 1
    /\ cb.metrics.rejectedCount >= 1
    /\ cb.nextAttemptTime # Undefined

\* C29: behind the guard, once the circuit is Open and resetTimeout has
\* elapsed, a request is admitted by the guard and run as a trial: the guard
\* turns a request away only while now < nextAttemptTime.
C29_GuardAdmitsTrial ==
    (last.op = "guard" /\ last.result = "unavailable")
    => now < getTime(cb.nextAttemptTime)

\* C30: the circuit breaker of the logger recovers: a log call made more than
\* resetTimeout after the breaker opened closes it again, so after a log
\* call the breaker is open only if no more than resetTimeout has passed
\* since it opened.
C30_LoggerRecovers ==
    (last.op = "log" /\ logger.circuitBreakerOpen)
    => now - logger.lastCircuitBreakerReset <= LoggerCircuitBreaker.resetTimeout

====
